---- MODULE Spec2Model ----
(***************************************************************************)
(* LogDownloader (ss13_tools/log_downloader/abstract.py): the concurrent   *)
(* fetch / filter / write pipeline.  process_and_write drives the async    *)
(* generator get_logs_async, which spawns one fetch task per round and     *)
(* yields the results in submission order.                                 *)
(*                                                                         *)
(* Byte strings and text are sequences of one-character strings.           *)
(* RoundData objects live in a heap (desc) and are referred to by object   *)
(* id, so that the in-place timestamp normalisation of fetch is visible    *)
(* to every holder of the object.                                          *)
(***************************************************************************)
EXTENDS Integers, Sequences, FiniteSets, TLC

\* ------------------------------------------------------------------ bounds
MaxRounds == 2      \* longest round list handed to the pipeline
MaxRuns == 2        \* process_and_write calls on one downloader

\* ------------------------------------------------------- text and bytes
DigitChars == <<"0", "1", "2", "3", "4", "5", "6", "7", "8", "9">>

UpperCase == <<"A", "B", "C", "D", "E", "F", "G", "H", "I", "J", "K", "L", "M",
               "N", "O", "P", "Q", "R", "S", "T", "U", "V", "W", "X", "Y", "Z">>

LowerCase == <<"a", "b", "c", "d", "e", "f", "g", "h", "i", "j", "k", "l", "m",
               "n", "o", "p", "q", "r", "s", "t", "u", "v", "w", "x", "y", "z">>

\* str(n) for an integer n
RECURSIVE Str(_)
Str(n) ==
    IF n < 0 THEN <<"-">> \o Str(0 - n)
    ELSE IF n < 10 THEN <<DigitChars[n + 1]>>
    ELSE Str(n \div 10) \o <<DigitChars[(n % 10) + 1]>>

\* f"{n:02d}"
Pad2(n) == IF n >= 0 /\ n < 10 THEN <<"0">> \o Str(n) ELSE Str(n)

\* str.lower() on ASCII text
LowerChar(c) ==
    IF \E i \in DOMAIN UpperCase : UpperCase[i] = c
    THEN LowerCase[CHOOSE i \in DOMAIN UpperCase : UpperCase[i] = c]
    ELSE c

Lower(s) == [i \in DOMAIN s |-> LowerChar(s[i])]

StartsWithAt(s, i, pat) ==
    /\ i + Len(pat) - 1 <= Len(s)
    /\ \A j \in 1..Len(pat) : s[i + j - 1] = pat[j]

\* str.replace(old, new): non-overlapping occurrences, left to right
RECURSIVE ReplaceFrom(_, _, _, _)
ReplaceFrom(s, i, old, new) ==
    IF i > Len(s) THEN <<>>
    ELSE IF StartsWithAt(s, i, old)
         THEN new \o ReplaceFrom(s, i + Len(old), old, new)
         ELSE <<s[i]>> \o ReplaceFrom(s, i + 1, old, new)

Replace(s, old, new) == ReplaceFrom(s, 1, old, new)

CRLF == <<"\r", "\n">>

\* bytes.split(b"\r\n")
RECURSIVE SplitFrom(_, _, _)
SplitFrom(b, i, cur) ==
    IF i > Len(b) THEN <<cur>>
    ELSE IF StartsWithAt(b, i, CRLF)
         THEN <<cur>> \o SplitFrom(b, i + 2, <<>>)
         ELSE SplitFrom(b, i + 1, Append(cur, b[i]))

Split(b) == SplitFrom(b, 1, <<>>)

\* b"\r\n".join(parts)
RECURSIVE Join(_)
Join(parts) ==
    IF parts = <<>> THEN <<>>
    ELSE IF Len(parts) = 1 THEN parts[1]
    ELSE parts[1] \o CRLF \o Join(Tail(parts))

\* str.encode("utf-8"): the model's text is ASCII, one byte per character
Utf8(s) == [i \in DOMAIN s |-> s[i]]

\* ------------------------------------------------------------ timestamps
DigitVal(c) == (CHOOSE i \in DOMAIN DigitChars : DigitChars[i] = c) - 1

IsDigit(c) == \E i \in DOMAIN DigitChars : DigitChars[i] = c

TextStamp(t) == [kind |-> "str", text |-> t, year |-> 0, month |-> 0, day |-> 0]

Instant(y, m, d) == [kind |-> "datetime", text |-> <<>>, year |-> y, month |-> m, day |-> d]

\* the calendar-date form YYYY-MM-DD accepted by isoparse
WellFormedDate(t) ==
    /\ Len(t) = 10
    /\ t[5] = "-" /\ t[8] = "-"
    /\ \A i \in {1, 2, 3, 4, 6, 7, 9, 10} : IsDigit(t[i])
    /\ 10 * DigitVal(t[6]) + DigitVal(t[7]) \in 1..12
    /\ 10 * DigitVal(t[9]) + DigitVal(t[10]) \in 1..31

ParseDate(t) ==
    Instant(1000 * DigitVal(t[1]) + 100 * DigitVal(t[2]) + 10 * DigitVal(t[3]) + DigitVal(t[4]),
            10 * DigitVal(t[6]) + DigitVal(t[7]),
            10 * DigitVal(t[9]) + DigitVal(t[10]))

\* isoparse(x): the exception it raises, or "" when it returns
isoparse_raises(x) ==
    IF x.kind # "str" THEN "TypeError"
    ELSE IF ~WellFormedDate(x.text) THEN "ValueError"
    ELSE ""

isoparse(x) == ParseDate(x.text)

\* ------------------------------------------------------------ the inputs
ObjIds == {1, 2, 3}

\* the RoundData objects the round-list source hands over
Catalogue ==
    (1 :> [server |-> <<"B", "o", "x">>, roundID |-> 42,
           timestamp |-> TextStamp(<<"2", "0", "2", "3", "-", "0", "1", "-", "0", "5">>),
           roundStartSuicide |-> FALSE])
    @@
    (2 :> [server |-> <<"B", "a", "g", "i", "l">>, roundID |-> 7,
           timestamp |-> TextStamp(<<"2", "0", "2", "2", "-", "1", "1", "-", "2", "0">>),
           roundStartSuicide |-> TRUE])
    @@
    (3 :> [server |-> <<"S", "y", "b", "i", "l">>, roundID |-> 100,
           timestamp |-> TextStamp(<<"y", "e", "s", "t", "e", "r", "d", "a", "y">>),
           roundStartSuicide |-> FALSE])

FooHappened == <<"F", "o", "o", " ", "h", "a", "p", "p", "e", "n", "e", "d">>

Bodies == { <<>>, FooHappened, <<"a", "\r", "\n", "\r", "\n", "b">> }

\* what session.get(link) can come to: a response with a non-success status,
\* a response with a success status and a body, or a network-level failure
\* (timeout, connection reset), which aiohttp raises as an exception
Responses ==
    {[ok |-> FALSE, body |-> <<>>, error |-> FALSE]}
        \cup {[ok |-> TRUE, body |-> b, error |-> FALSE] : b \in Bodies}
        \cup {[ok |-> FALSE, body |-> <<>>, error |-> TRUE]}

RoundLists == UNION {[1..n -> ObjIds] : n \in 0..MaxRounds}

FilterPolicies == {"all", "nonempty"}

\* ----------------------------------------------------------------- state
VARIABLES
    tgforums_cookie,  \* self.tgforums_cookie: "" when not logged in
    filter_policy,    \* which filter_lines override the concrete downloader has
    listing,          \* the round list update_round_list generates when asked
    desc,             \* heap of RoundData objects: object id -> fields
    rounds,           \* self.rounds: [none |-> is it None, list |-> object ids]
    web,              \* the archive: URL -> response served for it
    pc,               \* process_and_write: "idle", "await", "gather", "done", "raised"
    exc,              \* the exception process_and_write raised, "" if none
    tasks,            \* get_logs_async's tasks list, one record per spawned fetch
    n,                \* index in tasks of the task the coordinator awaits
    yielded,          \* the outcomes the latest get_logs_async call has yielded
    file,             \* the output file: the chunks written, each with the
                      \* position of the round whose loop iteration wrote it
    printed,          \* the warnings and notices printed while consuming them
    run,              \* number of process_and_write calls started
    outputs,          \* bytes of the output file at the end of each finished run
    completed         \* indices of its tasks in the order they finished

vars == <<tgforums_cookie, filter_policy, listing, desc, rounds, web, pc, exc, tasks, n,
          yielded, file, printed, run, outputs, completed>>

\* --------------------------------------------------------- link resolver
\* one iteration of get_log_links: url.format(...) for one round
FormatLink(cookie, rnd) ==
    [template |-> IF cookie # "" THEN "GAME_TXT_ADMIN_URL" ELSE "GAME_TXT_URL",
     server   |-> Replace(Lower(rnd.server), <<"b", "a", "g", "i", "l">>, <<"b", "a", "s", "i", "l">>),
     year     |-> Str(rnd.timestamp.year),
     month    |-> Pad2(rnd.timestamp.month),
     day      |-> Pad2(rnd.timestamp.day),
     round_id |-> Str(rnd.roundID)]

NoLink == [template |-> "", server |-> <<>>, year |-> <<>>, month |-> <<>>,
           day |-> <<>>, round_id |-> <<>>]

\* the URLs the archive knows: one per catalogued round with a date
ArchiveLinks(cookie) ==
    {FormatLink(cookie, [Catalogue[o] EXCEPT !.timestamp = isoparse(@)]) :
        o \in {x \in ObjIds : isoparse_raises(Catalogue[x].timestamp) = ""}}

\* ----------------------------------------------------------------- tasks
NewTask(obj) ==
    [round_data |-> obj, st |-> "created", k |-> 0, link |-> NoLink,
     response |-> <<>>, exc |-> ""]

\* faulty variant: only the first round's fetch is spawned up front
SpawnCapped(list) == [i \in DOMAIN SubSeq(list, 1, 1) |-> NewTask(list[i])]

\* for round_data in rounds: tasks.append(asyncio.ensure_future(fetch(...)))
Spawn(list) == [i \in DOMAIN list |-> NewTask(list[i])]

\* faulty variant: a task counts as done as soon as it has started
FinishedOnceStarted(t) == t.st # "created"

\* a task the event loop has run to its end: await task returns or raises
Finished(t) == t.st \in {"returned", "fell", "raised"}

\* faulty variant: the coordinator walks the task list backwards
AwaitedTaskReversed == Len(tasks) + 1 - n

\* for task in tasks: the task the coordinator awaits at its n-th turn
AwaitedTask == n

\* faulty variant: after a failed candidate the next one is skipped
RequestLinkSkipping(t, k, d) ==
    LET k2 == IF k > 1 THEN k + 1 ELSE k
    IN IF k2 > Len(rounds.list)
       THEN [t EXCEPT !.st = "fell", !.k = k2]
       ELSE IF d[rounds.list[k2]].timestamp.kind # "datetime"
            THEN [t EXCEPT !.st = "raised", !.exc = "AttributeError", !.k = k2]
            ELSE [t EXCEPT !.st = "waiting", !.k = k2,
                           !.link = FormatLink(tgforums_cookie, d[rounds.list[k2]])]

\* get_log_links advanced to the k-th round of self.rounds by a fetch task:
\* the task's next state, given the heap d the generator reads
RequestLink(t, k, d) ==
    IF k > Len(rounds.list)
    THEN [t EXCEPT !.st = "fell", !.k = k]
    ELSE IF d[rounds.list[k]].timestamp.kind # "datetime"
         THEN [t EXCEPT !.st = "raised", !.exc = "AttributeError", !.k = k]
         ELSE [t EXCEPT !.st = "waiting", !.k = k,
                        !.link = FormatLink(tgforums_cookie, d[rounds.list[k]])]

\* ---------------------------------------------------------------- driver
filter_lines(logs) ==
    IF filter_policy = "all" THEN logs
    ELSE SelectSeq(logs, LAMBDA l : l # <<>>)

\* faulty variant: the line terminator is forgotten
format_line_bytes_unterminated(line, round_data) ==
    Utf8(round_data.server) \o <<" ">> \o Utf8(Str(round_data.roundID))
        \o <<" ", "|", " ">> \o line

format_line_bytes(line, round_data) ==
    Utf8(round_data.server) \o <<" ">> \o Utf8(Str(round_data.roundID))
        \o <<" ", "|", " ">> \o line \o <<"\n">>

RECURSIVE Concat(_)
Concat(chunks) ==
    IF chunks = <<>> THEN <<>> ELSE chunks[1].bytes \o Concat(Tail(chunks))

FileBytes(f) == Concat(f)

Warning(rd) == [kind |-> "not found", roundID |-> rd.roundID, server |-> rd.server]

Notice(rd) == [kind |-> "round start suicide", roundID |-> rd.roundID, server |-> rd.server]

\* update_round_list: "Generates a list of rounds and saves it to
\* self.rounds": self.rounds as the call leaves it
update_round_list_saves == [none |-> FALSE, list |-> listing]

\* update_round_list: its return value, None per its signature
update_round_list_returns == [none |-> TRUE, list |-> <<>>]

\* self.rounds = self.rounds or await self.update_round_list(): the list
\* update_round_list saved is overwritten by the value it returned
RoundsAfterUpdate ==
    IF ~rounds.none /\ rounds.list # <<>> THEN rounds
    ELSE update_round_list_returns

\* process_and_write leaves with an exception e
Raise(e, f) ==
    /\ pc' = "raised"
    /\ exc' = e
    /\ outputs' = Append(outputs, FileBytes(f))

\* ------------------------------------------------------------------ Init
Init ==
    /\ tgforums_cookie \in {"", "sid"}
    /\ filter_policy \in FilterPolicies
    /\ desc = Catalogue
    /\ \E l \in RoundLists : rounds = [none |-> FALSE, list |-> l]
    /\ listing \in IF rounds.list = <<>> THEN RoundLists \ {<<>>} ELSE {<<>>}
    /\ web \in [ArchiveLinks(tgforums_cookie) -> Responses]
    /\ pc = "idle"
    /\ exc = ""
    /\ tasks = <<>>
    /\ n = 0
    /\ yielded = <<>>
    /\ file = <<>>
    /\ printed = <<>>
    /\ run = 0
    /\ outputs = <<>>
    /\ completed = <<>>

\* --------------------------------------------------------------- actions
\* process_and_write up to the first suspension of get_logs_async: the round
\* list, open(output_path, 'wb'), the session, the spawning of every task
StartRun ==
    /\ pc \in {"idle", "done"}
    /\ run < MaxRuns
    /\ run' = run + 1
    /\ rounds' = RoundsAfterUpdate
    /\ UNCHANGED <<tgforums_cookie, filter_policy, listing, desc, web>>
    /\ \E opened \in BOOLEAN :
         IF ~opened
         THEN /\ Raise("OSError", file)
              /\ UNCHANGED <<tasks, n, file, yielded, printed, completed>>
         ELSE /\ file' = <<>>
              /\ yielded' = <<>>
              /\ printed' = <<>>
              /\ completed' = <<>>
              /\ IF rounds'.none
                 THEN /\ Raise("TypeError", <<>>)
                      /\ tasks' = <<>>
                      /\ n' = 0
                 ELSE /\ tasks' = Spawn(rounds'.list)
                      /\ n' = 1
                      /\ pc' = IF rounds'.list = <<>> THEN "gather" ELSE "await"
                      /\ exc' = ""
                      /\ outputs' = outputs

\* the first step of fetch: normalise the timestamp, resolve the first link
\* and issue the request.  The event loop starts the tasks in the order
\* ensure_future scheduled them.
TaskStart(i) ==
    /\ pc \in {"await", "gather"}
    /\ i \in DOMAIN tasks
    /\ tasks[i].st = "created"
    /\ \A j \in 1..(i - 1) : tasks[j].st # "created"
    /\ LET t == tasks[i]
           ts == desc[t.round_data].timestamp
           err == isoparse_raises(ts)
           d == IF err = "" THEN [desc EXCEPT ![t.round_data].timestamp = isoparse(ts)]
                ELSE desc
           t2 == IF err # "" THEN [t EXCEPT !.st = "raised", !.exc = err]
                 ELSE RequestLink(t, 1, d)
       IN /\ desc' = d
          /\ tasks' = [tasks EXCEPT ![i] = t2]
          /\ completed' = IF Finished(t2) THEN Append(completed, i) ELSE completed
    /\ UNCHANGED <<tgforums_cookie, filter_policy, listing, rounds, web, pc, exc, n,
                   yielded, file, printed, run, outputs>>

\* the response to a task's request arrives: not ok -> continue with the
\* next link of get_log_links; ok -> read the body and return; a network
\* failure -> the exception leaves fetch, which catches nothing.  A request
\* suspends its task until the event loop polls the network, which it does
\* only after running the first step of every task ensure_future scheduled.
TaskRespond(i) ==
    /\ pc \in {"await", "gather"}
    /\ i \in DOMAIN tasks
    /\ tasks[i].st = "waiting"
    /\ \A j \in DOMAIN tasks : tasks[j].st # "created"
    /\ LET t == tasks[i]
           rsp == web[t.link]
           t2 == IF rsp.error THEN [t EXCEPT !.st = "raised", !.exc = "ClientError"]
                 ELSE IF ~rsp.ok THEN RequestLink(t, t.k + 1, desc)
                 ELSE [t EXCEPT !.st = "returned", !.response = Join(<<rsp.body>>)]
       IN /\ tasks' = [tasks EXCEPT ![i] = t2]
          /\ completed' = IF Finished(t2) THEN Append(completed, i) ELSE completed
    /\ UNCHANGED <<tgforums_cookie, filter_policy, listing, desc, rounds, web, pc, exc, n,
                   yielded, file, printed, run, outputs>>

\* the chunks process_and_write writes for one present outcome
Chunks(pos, logs, rd) ==
    LET kept == filter_lines(logs)
    IN [j \in DOMAIN kept |-> [pos |-> pos, bytes |-> format_line_bytes(kept[j], rd)]]

\* faulty variant: an absent outcome is skipped silently
PrintsNoWarning(absent, rd) ==
    IF ~absent /\ rd.roundStartSuicide THEN <<Notice(rd)>> ELSE <<>>

\* what the driver prints for one outcome
Prints(absent, rd) ==
    IF absent THEN <<Warning(rd)>>
    ELSE IF rd.roundStartSuicide THEN <<Notice(rd)>>
    ELSE <<>>

\* faulty variant: a round-start-suicide round is skipped like an absent one
WritesSkipSuicide(pos, absent, logs, rd) ==
    IF absent \/ rd.roundStartSuicide THEN <<>> ELSE Chunks(pos, logs, rd)

\* what the driver writes for one outcome, the sink permitting
Writes(pos, absent, logs, rd) ==
    IF absent THEN <<>> ELSE Chunks(pos, logs, rd)

\* the awaited task is done: await task returns to the coordinator, which
\* unpacks and yields; the body of the driver's loop runs on the outcome and
\* asks for the next one
Resume ==
    /\ pc = "await"
    /\ AwaitedTask \in DOMAIN tasks
    /\ Finished(tasks[AwaitedTask])
    /\ \A j \in DOMAIN tasks : tasks[j].st # "created"
    /\ UNCHANGED <<tgforums_cookie, filter_policy, listing, desc, rounds, web, tasks, run,
                   completed>>
    /\ LET t == tasks[AwaitedTask]
           rd == desc[t.round_data]
       IN IF t.st = "raised"
          THEN /\ Raise(t.exc, file)
               /\ UNCHANGED <<n, yielded, file, printed>>
          ELSE IF t.st = "fell"
          THEN /\ Raise("TypeError", file)
               /\ UNCHANGED <<n, yielded, file, printed>>
          ELSE LET absent == (t.response = <<>>)
                   logs == IF absent THEN <<>> ELSE Split(t.response)
                   out == Writes(AwaitedTask, absent, logs, rd)
               IN /\ yielded' = Append(yielded, [round_data |-> t.round_data,
                                                 absent |-> absent, logs |-> logs])
                  /\ printed' = printed \o Prints(absent, rd)
                  /\ \E m \in 0..Len(out) :
                       /\ file' = file \o SubSeq(out, 1, m)
                       /\ IF m < Len(out)
                          THEN /\ Raise("OSError", file')
                               /\ n' = n
                          ELSE /\ n' = n + 1
                               /\ pc' = IF n + 1 > Len(tasks) THEN "gather" ELSE "await"
                               /\ UNCHANGED <<exc, outputs>>

\* await asyncio.gather(*tasks), then the session and the file are closed
Gather ==
    /\ pc = "gather"
    /\ \A j \in DOMAIN tasks : Finished(tasks[j])
    /\ IF \E j \in DOMAIN tasks : tasks[j].st = "raised"
       THEN Raise((CHOOSE j \in DOMAIN tasks : tasks[j].st = "raised").exc, file)
       ELSE /\ pc' = "done"
            /\ outputs' = Append(outputs, FileBytes(file))
            /\ exc' = exc
    /\ UNCHANGED <<tgforums_cookie, filter_policy, listing, desc, rounds, web, tasks, n,
                   yielded, file, printed, run, completed>>

Next ==
    \/ StartRun
    \/ \E i \in 1..(MaxRounds + 1) : TaskStart(i)
    \/ \E i \in 1..(MaxRounds + 1) : TaskRespond(i)
    \/ Resume
    \/ Gather

Spec == Init /\ [][Next]_vars

\* the event loop runs every task that is ready and resumes the coordinator
\* when the task it awaits is done; every request made gets its response
Fairness ==
    /\ \A i \in 1..(MaxRounds + 1) : WF_vars(TaskStart(i)) /\ WF_vars(TaskRespond(i))
    /\ WF_vars(Resume)
    /\ WF_vars(Gather)

FairSpec == Init /\ [][Next]_vars /\ Fairness

\* ---------------------------------------------------------------- claims
IsPrefix(a, b) == Len(a) <= Len(b) /\ SubSeq(b, 1, Len(a)) = a

Pending(t) == t.st \in {"created", "waiting"}

Last(q) == q[Len(q)]

\* the step yields one more outcome
YieldsOutcome == Len(yielded') = Len(yielded) + 1

\* the links of self.rounds a task has requested so far
Tried(t) ==
    IF t.st \in {"waiting", "returned"} \/ t.exc = "ClientError"
    THEN 1..t.k ELSE 1..(t.k - 1)

\* the archive answered the link with a non-success status
NonSuccess(l) == ~web[l].ok /\ ~web[l].error

LinkAt(j) == FormatLink(tgforums_cookie, desc[rounds.list[j]])

\* C1: once get_logs_async has ended (other than by its consumer failing on
\* the sink), it has yielded exactly one outcome per input round, the i-th
\* outcome carrying the i-th round.
C1_OneOutcomePerRound ==
    (pc \in {"done", "raised"} /\ ~rounds.none /\ exc # "OSError")
        => /\ Len(yielded) = Len(rounds.list)
           /\ \A i \in DOMAIN yielded : yielded[i].round_data = rounds.list[i]

\* C2: the URL a round's fetch task requests, and the one whose body it
\* returns, is the URL resolved from that task's own round.
C2_OwnLinkOnly ==
    \A i \in DOMAIN tasks :
        tasks[i].st \in {"waiting", "returned"}
            => tasks[i].link = FormatLink(tgforums_cookie, desc[tasks[i].round_data])

\* C3: a round whose every tried URL returned a non-success status is
\* yielded as (round, None) when the coordinator reaches it: its fetch
\* does not raise and the coordinator does not stop at it.
C3_AbsentWhenAllFail ==
    \A i \in DOMAIN tasks :
        (/\ Finished(tasks[i])
         /\ Tried(tasks[i]) # {}
         /\ \A j \in Tried(tasks[i]) : NonSuccess(LinkAt(j))
         /\ (n > i \/ (n = i /\ pc = "raised" /\ exc # "OSError")))
            => /\ i \in DOMAIN yielded
               /\ yielded[i].absent
               /\ yielded[i].round_data = tasks[i].round_data

\* C4: on an absent outcome the driver writes nothing, prints exactly one
\* warning naming the round's id and server, and goes on to the next outcome
\* without raising.
C4_AbsentOutcomeSkipped ==
    [][(YieldsOutcome /\ Last(yielded').absent)
         => LET rd == desc[Last(yielded').round_data]
            IN /\ file' = file
               /\ printed' = Append(printed, [kind |-> "not found",
                                              roundID |-> rd.roundID,
                                              server |-> rd.server])
               /\ pc' \in {"await", "gather"}
               /\ n' = n + 1
               /\ exc' = exc]_vars

C4_Witness ==
    /\ pc = "done"
    /\ Len(yielded) = 2
    /\ yielded[1].absent /\ yielded[2].absent
    /\ Len(printed) = 2
    /\ file = <<>>

\* C5: a present outcome is filtered and written the same way whatever the
\* round's suicide flag is: the kept lines, tagged, are appended in full
\* (up to a sink failure), and the flag adds exactly one notice.
C5_SuicideFlagOnlyPrints ==
    [][(YieldsOutcome /\ ~Last(yielded').absent)
         => LET o == Last(yielded')
                rd == desc[o.round_data]
                full == Chunks(Len(yielded'), o.logs, rd)
            IN /\ \E m \in 0..Len(full) :
                    /\ file' = file \o SubSeq(full, 1, m)
                    /\ m < Len(full) <=> (pc' = "raised" /\ exc' = "OSError")
               /\ printed' = IF rd.roundStartSuicide
                             THEN Append(printed, [kind |-> "round start suicide",
                                                   roundID |-> rd.roundID,
                                                   server |-> rd.server])
                             ELSE printed]_vars

C5_Witness ==
    \E k \in DOMAIN yielded :
        /\ ~yielded[k].absent
        /\ desc[yielded[k].round_data].roundStartSuicide
        /\ \E c \in DOMAIN file : file[c].pos = k
        /\ \E q \in DOMAIN printed : printed[q].kind = "round start suicide"
        /\ pc = "done"

BoxFortyTwoFooHappened ==
    <<"B", "o", "x", " ", "4", "2", " ", "|", " ",
      "F", "o", "o", " ", "h", "a", "p", "p", "e", "n", "e", "d", "\n">>

\* C6: every chunk in the file is the round's server, a space, the round id
\* in decimal, " | ", one line that filter_lines kept of that round's
\* outcome, unmodified, and a newline; b"Foo happened" of (Box, 42) is
\* written as "Box 42 | Foo happened\n".
C6_LineTagging ==
    \A c \in DOMAIN file :
        LET p == file[c].pos
        IN /\ p \in DOMAIN yielded
           /\ ~yielded[p].absent
           /\ LET rd == desc[yielded[p].round_data]
                  kept == filter_lines(yielded[p].logs)
              IN \E j \in DOMAIN kept :
                    /\ \E l \in DOMAIN yielded[p].logs : yielded[p].logs[l] = kept[j]
                    /\ file[c].bytes = rd.server \o <<" ">> \o Str(rd.roundID)
                                         \o <<" ", "|", " ">> \o kept[j] \o <<"\n">>
                    /\ (rd.server = <<"B", "o", "x">> /\ rd.roundID = 42
                          /\ kept[j] = FooHappened)
                         => file[c].bytes = BoxFortyTwoFooHappened

C6_Witness ==
    \E c \in DOMAIN file : file[c].bytes = BoxFortyTwoFooHappened

\* C7: in the file the chunks of an earlier round all precede the chunks of
\* a later round, and within a run the file only grows at its end.
C7_OrderedAppendOnly ==
    /\ [](\A a, b \in DOMAIN file : a < b => file[a].pos <= file[b].pos)
    /\ [][run' = run => IsPrefix(file, file')]_vars

C7_Witness ==
    /\ completed = <<2, 1>>
    /\ desc[tasks[1].round_data].roundID # desc[tasks[2].round_data].roundID
    /\ \E a, b \in DOMAIN file : a < b /\ file[a].pos = 1 /\ file[b].pos = 2
    /\ pc = "done"

\* C8: a second process_and_write on the same downloader, the archive and
\* the sink unchanged, completes and leaves the same bytes in the file as
\* the first.
C8_Idempotent ==
    (run = 2 /\ pc \in {"done", "raised"} /\ exc # "OSError")
        => /\ pc = "done"
           /\ outputs[1] = outputs[2]

\* C9: when get_logs_async is exhausted normally, no task it spawned is
\* still pending or running.
C9_DrainedAtExhaustion ==
    pc = "done" => \A j \in DOMAIN tasks : ~Pending(tasks[j])

C9_Witness ==
    /\ pc = "done"
    /\ Len(tasks) = 2
    /\ completed = <<2, 1>>

\* C10: when process_and_write leaves with an exception, no fetch task is
\* left pending or running.
C10_NoTaskAbandoned ==
    pc = "raised" => \A j \in DOMAIN tasks : ~Pending(tasks[j])

\* the coordinator has awaited task i: it went past it or stopped at it
Reached(i) == n > i \/ (n = i /\ pc = "raised" /\ exc # "OSError")

\* C11: a network-level failure of one request is handled inside fetch like
\* a non-success status: the task does not end with the exception, and
\* process_and_write does not leave with it.
C11_NetworkFailureContained ==
    /\ \A i \in DOMAIN tasks : tasks[i].exc # "ClientError"
    /\ exc # "ClientError"

\* C12: a round whose timestamp cannot be parsed is yielded as an absent
\* outcome when the coordinator reaches it, and the parse error does not
\* leave the coordinator.
C12_MalformedRoundIsAbsent ==
    /\ \A i \in DOMAIN tasks :
          (tasks[i].exc = "ValueError" /\ Reached(i))
              => /\ i \in DOMAIN yielded
                 /\ yielded[i].absent
                 /\ yielded[i].round_data = tasks[i].round_data
    /\ exc # "ValueError"

\* C13: with every ready task run and every request answered, a run that
\* has spawned its tasks ends with every submitted round yielded and
\* processed (unless the sink fails), and no round's link is requested by
\* two fetches of one run.
C13_EveryRoundReachesDone ==
    /\ (pc = "await") ~> (\/ pc = "done" /\ Len(yielded) = Len(rounds.list)
                          \/ exc = "OSError")
    /\ [](\A i, j \in DOMAIN tasks :
            (i # j /\ tasks[i].st \in {"waiting", "returned"}
                   /\ tasks[j].st \in {"waiting", "returned"})
                => tasks[i].k # tasks[j].k)

\* the link the claim describes for a catalogued round: lower-cased server
\* with bagil renamed basil, year, two-digit month and day, round id
DescribedLink(o) ==
    LET template == IF tgforums_cookie = "" THEN "GAME_TXT_URL" ELSE "GAME_TXT_ADMIN_URL"
    IN CASE o = 1 -> [template |-> template, server |-> <<"b", "o", "x">>,
                      year |-> <<"2", "0", "2", "3">>, month |-> <<"0", "1">>,
                      day |-> <<"0", "5">>, round_id |-> <<"4", "2">>]
         [] o = 2 -> [template |-> template, server |-> <<"b", "a", "s", "i", "l">>,
                      year |-> <<"2", "0", "2", "2">>, month |-> <<"1", "1">>,
                      day |-> <<"2", "0">>, round_id |-> <<"7">>]
         [] OTHER -> NoLink

\* every link get_log_links has produced is the one the claim describes
LinksAsDescribed ==
    \A i \in DOMAIN tasks :
        tasks[i].st \in {"waiting", "returned"}
            => tasks[i].link = DescribedLink(rounds.list[tasks[i].k])

\* C14: get_log_links yields a link for every round it is asked about and
\* never errors, and the link is built from the template the cookie
\* selects, the lower-cased and renamed server, the year, the two-digit
\* month and day, and the round id.
C14_ResolverTotalAndExact ==
    /\ \A i \in DOMAIN tasks : tasks[i].exc # "AttributeError"
    /\ LinksAsDescribed

\* C15: while the coordinator is between its first await and its end, one
\* task per round exists (none is held back), the coordinator has yielded
\* exactly the outcomes of the tasks before the one it awaits, all of them
\* finished, so a later task that has finished is held until its turn.
C15_EagerSpawnOrderedAwait ==
    pc \in {"await", "gather"}
        => /\ Len(tasks) = Len(rounds.list)
           /\ \A i \in DOMAIN tasks : tasks[i].round_data = rounds.list[i]
           /\ Len(yielded) = n - 1
           /\ \A i \in 1..(n - 1) : ~Pending(tasks[i])

C15_Witness ==
    /\ pc = "await"
    /\ n = 1
    /\ Len(tasks) = 2
    /\ tasks[1].st = "waiting"
    /\ tasks[2].st = "returned"
    /\ yielded = <<>>

\* C16: a fetch has one request in flight at a time; it starts with the
\* first link of the resolver and, on a response that is not ok, goes to the
\* very next one (never the same again, never one further); on the first ok
\* response it returns that response's whole body and requests nothing more.
C16_CandidatesInOrderOnce ==
    /\ [][run' = run =>
            \A i \in DOMAIN tasks :
                LET t == tasks[i]
                    u == tasks'[i]
                IN /\ t.st = "returned" => u = t
                   /\ (t.st = "created" /\ u.st = "waiting")
                        => /\ u.k = 1
                           /\ u.link = FormatLink(tgforums_cookie, desc'[rounds.list[1]])
                   /\ (t.st = "waiting" /\ u # t)
                        => IF web[t.link].error
                           THEN u.st = "raised" /\ u.k = t.k
                           ELSE IF web[t.link].ok
                           THEN /\ u.st = "returned"
                                /\ u.k = t.k
                                /\ u.link = t.link
                                /\ u.response = web[t.link].body
                           ELSE /\ u.k = t.k + 1
                                /\ u.st \in {"waiting", "fell", "raised"}
                                /\ u.st = "waiting" => u.link = LinkAt(t.k + 1)
                                /\ u.st = "fell" <=> t.k = Len(rounds.list)]_vars
    /\ [](\A i \in DOMAIN tasks :
            tasks[i].st = "returned"
                => /\ web[tasks[i].link].ok
                   /\ tasks[i].link = LinkAt(tasks[i].k)
                   /\ \A j \in 1..(tasks[i].k - 1) : NonSuccess(LinkAt(j)))

C16_Witness ==
    \E i \in DOMAIN tasks :
        /\ tasks[i].st = "returned"
        /\ tasks[i].k = 2
        /\ tasks[i].response # <<>>

\* C17: for every yielded outcome, if a candidate of its fetch returned a
\* success status (the fetch returned a body, empty or not) the outcome
\* carries lines, and an outcome is absent exactly when it carries no lines.
C17_AbsentOnlyIfNoSuccess ==
    \A i \in DOMAIN yielded :
        /\ (tasks[i].st = "returned" /\ web[tasks[i].link].ok) => ~yielded[i].absent
        /\ yielded[i].absent <=> yielded[i].logs = <<>>

\* C18: a descriptor differs from what was handed over at most in its
\* timestamp, which is either still the text or the instant parsed from it,
\* and no fetch applies the normalisation to a timestamp that is already
\* an instant.
C18_NormalisedExactlyOnce ==
    /\ \A o \in ObjIds :
          \/ desc[o] = Catalogue[o]
          \/ /\ isoparse_raises(Catalogue[o].timestamp) = ""
             /\ desc[o] = [Catalogue[o] EXCEPT !.timestamp = ParseDate(Catalogue[o].timestamp.text)]
    /\ \A i \in DOMAIN tasks :
          ~(tasks[i].st = "raised" /\ tasks[i].k = 0 /\ tasks[i].exc = "TypeError")

\* C19: every round whose timestamp fields a fetch task has read through
\* get_log_links (the rounds at positions 1..k of self.rounds, k being the
\* number of links the task has asked for) has its timestamp in instant
\* form, in every interleaving of the tasks.
C19_TimestampNormalisedWhenRead ==
    \A i \in DOMAIN tasks :
        \A j \in 1..tasks[i].k :
            j <= Len(rounds.list) => desc[rounds.list[j]].timestamp.kind = "datetime"

\* C20: a call of process_and_write with an empty self.rounds leaves in
\* self.rounds the list update_round_list generated, and fetches exactly
\* those rounds; a call with a non-empty self.rounds leaves it as it is and
\* fetches those.
C20_FetchesGeneratedRounds ==
    [][run' # run =>
          /\ rounds' = IF rounds.list = <<>> THEN update_round_list_saves ELSE rounds
          /\ exc' # "OSError" => tasks' = Spawn(rounds'.list)]_vars

====
